---- MODULE Spec2Model ----
(***************************************************************************)
(* Verification model of Matrix-Maze (src/app/src-tauri/src).              *)
(*                                                                         *)
(*  - Maze::new / Maze::generate (maze.rs) as a step machine: one action   *)
(*    per straight-line block or loop iteration of generate().             *)
(*  - The 64-bit LCG of generate() is computed exactly, on 8 little-endian *)
(*    bytes, because TLC integers are 32 bits wide.                        *)
(*  - generate_bayer_points (dither/bayer.rs) and                          *)
(*    DitherPattern::select_level (dither/pattern.rs) as a second machine. *)
(*  - DitherPattern::sample_pattern on the constructed levels, on a        *)
(*    fixed-point grid (SampleSpec).                                       *)
(*  - cast_ray (raycast.rs) as a step machine over rational directions,    *)
(*    one action per iteration of the DDA loop (RaySpec).                  *)
(*  - the row and column loops of GameState::render_frame (game.rs), one   *)
(*    action per pushed glyph (RenderSpec).                                *)
(*  - GameState::update on the generated maze of level 1, on a fixed-point *)
(*    grid of player positions (MoveSpec).                                 *)
(*  - the commands init_game, restart_game, update_game and next_level     *)
(*    (main.rs) over levels, times, records and best_times.json (GameSpec).*)
(***************************************************************************)
EXTENDS Integers, Sequences, FiniteSets, TLC

\* max_distance of render_frame
FarMax == 20

\* ---------------------------------------------------------------- bounds
MinDim == 5          \* precondition of Maze::new (spec 4.1): width, height >= 5
MaxDim == 8          \* largest width / height explored
MaxSeed == 63        \* hasher outputs 0..MaxSeed are explored as initial rng_seed
MaxRuns == 2         \* number of consecutive Maze::new calls with the same seed
NdBits == 3          \* normalized distances are the multiples of 1 / 2^NdBits
UvBits == 3          \* UV coordinates are the multiples of 1 / 2^UvBits
SmallDots == 3       \* dot counts 0..SmallDots are tried besides the full pattern
RayW == 4            \* width of the mazes rays are cast in
RayH == 3            \* height of the mazes rays are cast in
NearMax == 1         \* a max_distance shorter than the maze
FrameW == 2          \* largest frame width rendered
FrameH == 4          \* largest frame height rendered
FrameDist == 4       \* column distances up to FrameDist half cells
MaxElapsed == 2      \* a level is won after 1..MaxElapsed seconds
MaxBuilt == 6        \* new_level calls in a session (one per level entered)
MaxOutside == 1      \* the player is followed this many cells outside the grid

VARIABLES
    width, height,   \* Maze.width, Maze.height
    cells,           \* Maze.cells: cells[y][x], TRUE = wall
    start, exit,     \* Maze.start, Maze.exit as <<x, y>>
    seed0,           \* value of hasher.finish() this maze was built from
    rng_seed,        \* local rng_seed of generate(): 8 bytes, little-endian
    stack, visited,  \* locals of generate()
    attempts,        \* local of the start-selection loop
    exit_reached,    \* local of generate()
    current,         \* cursor of the fallback carve loop
    pc,              \* position inside generate()
    panicked,        \* TRUE once an index was out of range / a usize underflowed
    run, prev,       \* how many mazes were built from seed0, and the previous one
    patterns,        \* BayerPatterns under construction: <<level_0, level_1, ..>>
    recursion, points, r_idx, i_idx, j_idx, count,   \* generate_bayer_points
    bpc,             \* position inside BayerPatterns::new / generate_bayer_points
    nd, sel,         \* argument and result of the last select_level call
    nd_prev, sel_prev,  \* argument and result of the call before it
    s_args, s_val,   \* arguments and result of the last sample_pattern call
    r_width, r_height,  \* cast_ray: maze.width, maze.height
    r_cells,         \* cast_ray: the cells of maze read so far, TRUE = wall
    start_x, start_y,   \* cast_ray arguments, times PosDen
    dir,             \* <<a, b, c>>: dx = angle.cos() = a / c, dy = angle.sin() = b / c
    max_distance,    \* cast_ray argument, in whole units
    exit_x, exit_y,  \* cast_ray arguments: None or Some(coordinate times PosDen)
    map_x, map_y, side_dist_x, side_dist_y, side, hit, passed_exit,
    exit_threshold_dist,   \* locals of cast_ray
    result,          \* None, or Some(the RaycastResult returned)
    rpc,             \* position inside cast_ray
    frame_width, frame_height,   \* render_frame arguments width, height
    column_data,     \* render_frame: <<distance, passed_exit, exit_threshold_dist>>
    frame,           \* render_frame: the String built so far, one glyph per item
    kinds,           \* the branch that pushed each glyph of frame
    row, col,        \* loop counters of render_frame
    fpc,             \* position inside render_frame
    game,            \* the GameState handed from command to command, or None
    best_file,       \* best_times.json: None, or Some(<<best_times, best_total_time>>)
    last_op,         \* the last command served and whether it wrote best_times.json
    levels_built     \* number of new_level calls of this session

mazeVars == <<width, height, cells, start, exit, seed0, rng_seed, stack, visited,
              attempts, exit_reached, current, pc, panicked, run, prev>>
ditherVars == <<patterns, recursion, points, r_idx, i_idx, j_idx, count, bpc,
                nd, sel, nd_prev, sel_prev>>
sampleVars == <<s_args, s_val>>
rayVars == <<r_width, r_height, r_cells, start_x, start_y, dir, max_distance,
             exit_x, exit_y, map_x, map_y, side_dist_x, side_dist_y, side, hit,
             passed_exit, exit_threshold_dist, result, rpc>>
frameVars == <<frame_width, frame_height, column_data, frame, kinds, row, col, fpc>>
gameVars == <<game, best_file, last_op, levels_built>>
restVars == <<sampleVars, rayVars, frameVars, gameVars>>
vars == <<mazeVars, ditherVars, restVars>>

\* ------------------------------------------------------------ 64-bit LCG
\* 1103515245 = 0x41C64E6D and 12345 = 0x3039, little-endian bytes.
MulBytes == <<109, 78, 198, 65>>
AddBytes == <<57, 48, 0, 0, 0, 0, 0, 0>>

\* a u64 below 2^31 as 8 little-endian bytes
U64(n) == <<n % 256, (n \div 256) % 256, (n \div 65536) % 256,
            (n \div 16777216) % 256, 0, 0, 0, 0>>

RECURSIVE ColSum(_, _, _)
\* sum over i + j = k + 1 of x[i] * MulBytes[j]  (column k of the product)
ColSum(x, k, i) ==
    IF i > k THEN 0
    ELSE (IF k - i + 1 <= 4 THEN x[i] * MulBytes[k - i + 1] ELSE 0)
         + ColSum(x, k, i + 1)

RECURSIVE CarryInto(_, _)
\* the carry entering byte k of x * 1103515245 + 12345
CarryInto(x, k) ==
    IF k = 1 THEN 0
    ELSE (ColSum(x, k - 1, 1) + AddBytes[k - 1] + CarryInto(x, k - 1)) \div 256

\* rng_seed.wrapping_mul(1103515245).wrapping_add(12345) on u64: the bytes above
\* the eighth are dropped
LcgNext(x) ==
    [k \in 1..8 |-> (ColSum(x, k, 1) + AddBytes[k] + CarryInto(x, k)) % 256]

RECURSIVE ModFrom(_, _, _, _)
ModFrom(x, m, k, acc) ==
    IF k = 0 THEN acc ELSE ModFrom(x, m, k - 1, (acc * 256 + x[k]) % m)

\* rng_seed as usize % m   (usize is 64 bits wide)
ModU64(x, m) == ModFrom(x, m, 8, 0)

\* ------------------------------------------------------------ maze helpers
InBounds(p) == p[1] >= 0 /\ p[1] < width /\ p[2] >= 0 /\ p[2] < height

\* self.cells[p.1][p.0] = false  (no effect in the model when out of range;
\* the action then sets panicked)
ClearCell(c, p) == IF InBounds(p) THEN [c EXCEPT ![p[2]][p[1]] = FALSE] ELSE c

\* squared Euclidean distance; sqrt is monotone and exact on 9, so
\* sqrt(d2) > 3.0 <=> d2 > 9 and sqrt(a) < sqrt(b) <=> a < b
Dist2(p, q) == (p[1] - q[1]) * (p[1] - q[1]) + (p[2] - q[2]) * (p[2] - q[2])


\* the acceptance test giving up one rejection early
Accepts_fifty(d2, att) == d2 > 9 \/ att >= 50

\* "dist_to_exit > 3.0 || attempts > 50" of the start-selection loop, on the
\* squared distance
Accepts(d2, att) == d2 > 9 \/ att > 50

\* the all-wall grid built by Maze::new
AllWalls == [y \in 0..(height - 1) |-> [x \in 0..(width - 1) |-> TRUE]]

\* ExitOnEdge without the "1 +" that keeps the position off the corners
ExitOnEdge_corner(edge, s) ==
    CASE edge = 0 -> <<ModU64(s, width), 0>>
      [] edge = 1 -> <<width - 1, ModU64(s, height)>>
      [] edge = 2 -> <<ModU64(s, width), height - 1>>
      [] OTHER    -> <<0, ModU64(s, height)>>

\* match edge { 0 => top, 1 => right, 2 => bottom, _ => left }, s being the
\* rng_seed after the second LCG step
ExitOnEdge(edge, s) ==
    CASE edge = 0 -> <<1 + ModU64(s, width - 2), 0>>
      [] edge = 1 -> <<width - 1, 1 + ModU64(s, height - 2)>>
      [] edge = 2 -> <<1 + ModU64(s, width - 2), height - 1>>
      [] OTHER    -> <<0, 1 + ModU64(s, height - 2)>>

\* the "reached the exit area" test at the top of the traversal loop
AtExitArea(cur, e) ==
    \/ cur = e
    \/ (cur[1] = e[1] /\ e[2] > 0 /\ cur[2] = e[2] - 1)
    \/ (e[1] > 0 /\ cur[1] = e[1] - 1 /\ cur[2] = e[2])

\* get_unvisited_neighbors with the upper guards written against width / height
\* instead of width - 2 / height - 2
get_unvisited_neighbors_wide(pos, vis) ==
    LET x == pos[1]
        y == pos[2]
        west  == IF x > 2 /\ <<x - 2, y>> \notin vis
                 THEN << <<x - 2, y>> >> ELSE <<>>
        east  == IF x < width /\ <<x + 2, y>> \notin vis
                 THEN << <<x + 2, y>> >> ELSE <<>>
        north == IF y > 2 /\ <<x, y - 2>> \notin vis
                 THEN << <<x, y - 2>> >> ELSE <<>>
        south == IF y < height /\ <<x, y + 2>> \notin vis
                 THEN << <<x, y + 2>> >> ELSE <<>>
    IN  west \o east \o north \o south

\* get_unvisited_neighbors collecting the neighbours in an order that differs
\* from one construction to the next, as iterating a HashSet would
get_unvisited_neighbors_hashorder(pos, vis) ==
    LET x == pos[1]
        y == pos[2]
        west  == IF x > 2 /\ <<x - 2, y>> \notin vis
                 THEN << <<x - 2, y>> >> ELSE <<>>
        east  == IF x < width - 2 /\ <<x + 2, y>> \notin vis
                 THEN << <<x + 2, y>> >> ELSE <<>>
        north == IF y > 2 /\ <<x, y - 2>> \notin vis
                 THEN << <<x, y - 2>> >> ELSE <<>>
        south == IF y < height - 2 /\ <<x, y + 2>> \notin vis
                 THEN << <<x, y + 2>> >> ELSE <<>>
    IN  IF run % 2 = 1 THEN west \o east \o north \o south
        ELSE south \o north \o east \o west

get_unvisited_neighbors(pos, vis) ==
    LET x == pos[1]
        y == pos[2]
        west  == IF x > 2 /\ <<x - 2, y>> \notin vis
                 THEN << <<x - 2, y>> >> ELSE <<>>
        east  == IF x < width - 2 /\ <<x + 2, y>> \notin vis
                 THEN << <<x + 2, y>> >> ELSE <<>>
        north == IF y > 2 /\ <<x, y - 2>> \notin vis
                 THEN << <<x, y - 2>> >> ELSE <<>>
        south == IF y < height - 2 /\ <<x, y + 2>> \notin vis
                 THEN << <<x, y + 2>> >> ELSE <<>>
    IN  west \o east \o north \o south

\* remove_wall_between clearing the far cell instead of the midpoint
remove_wall_between_far(a, b) == b

\* remove_wall_between taking mid_y from a alone
remove_wall_between_skew(a, b) == <<(a[1] + b[1]) \div 2, a[2]>>

\* the midpoint cell cleared by remove_wall_between(a, b)
remove_wall_between(a, b) == <<(a[1] + b[1]) \div 2, (a[2] + b[2]) \div 2>>

\* row-major order of the nearest-cell scan (for y .. for x ..)
ScanBefore(p, q) == p[2] < q[2] \/ (p[2] = q[2] /\ p[1] <= q[1])

\* the nearest-cell scan testing cells[y][x] instead of !cells[y][x]
NearestVisited_walls(c, vis, e) ==
    LET cand == {p \in (1..(width - 2)) \X (1..(height - 2)) :
                    c[p[2]][p[1]] /\ p \in vis}
    IN  IF cand = {} THEN <<1, 1>>
        ELSE CHOOSE p \in cand : \A q \in cand :
                \/ Dist2(p, e) < Dist2(q, e)
                \/ (Dist2(p, e) = Dist2(q, e) /\ ScanBefore(p, q))

\* the scan for the nearest visited interior path cell; strict "<" keeps the
\* first minimum in scan order, the default is (1, 1)
NearestVisited(c, vis, e) ==
    LET cand == {p \in (1..(width - 2)) \X (1..(height - 2)) :
                    ~c[p[2]][p[1]] /\ p \in vis}
    IN  IF cand = {} THEN <<1, 1>>
        ELSE CHOOSE p \in cand : \A q \in cand :
                \/ Dist2(p, e) < Dist2(q, e)
                \/ (Dist2(p, e) = Dist2(q, e) /\ ScanBefore(p, q))

\* the carve step with the two x branches exchanged
CarveNext_away(cur, e) ==
    CASE cur[1] < e[1] -> <<cur[1] - 1, cur[2]>>
      [] cur[1] > e[1] -> <<cur[1] + 1, cur[2]>>
      [] cur[2] < e[2] -> <<cur[1], cur[2] + 1>>
      [] cur[2] > e[2] -> <<cur[1], cur[2] - 1>>
      [] OTHER         -> cur

\* one iteration of "while current != exit": the cell stepped to, or cur itself
\* when no branch applies (the break)
CarveNext(cur, e) ==
    CASE cur[1] < e[1] -> <<cur[1] + 1, cur[2]>>
      [] cur[1] > e[1] -> <<cur[1] - 1, cur[2]>>
      [] cur[2] < e[2] -> <<cur[1], cur[2] + 1>>
      [] cur[2] > e[2] -> <<cur[1], cur[2] - 1>>
      [] OTHER         -> cur

\* the cells cleared by the final "opening" block, as a set
ExitOpening(e) ==
    IF e[2] = 0 THEN (IF e[2] + 1 < height THEN {<<e[1], e[2] + 1>>} ELSE {})
    ELSE IF e[1] = width - 1 THEN (IF e[1] > 0 THEN {<<e[1] - 1, e[2]>>} ELSE {})
    ELSE IF e[2] = height - 1 THEN (IF e[2] > 0 THEN {<<e[1], e[2] - 1>>} ELSE {})
    ELSE IF e[1] = 0 THEN (IF e[1] + 1 < width THEN {<<e[1] + 1, e[2]>>} ELSE {})
    ELSE {}

\* ------------------------------------------------------------ dither idle
DitherIdle ==
    /\ patterns = <<>> /\ recursion = 0 /\ points = <<>>
    /\ r_idx = 0 /\ i_idx = 0 /\ j_idx = 0 /\ count = 0 /\ bpc = "idle"
    /\ nd = 0 /\ sel = <<>> /\ nd_prev = 0 /\ sel_prev = <<>>

\* no sample_pattern call has been made
SampleIdle == s_args = <<>> /\ s_val = 0

\* Option values
None == <<>>
Some(v) == <<v>>

\* no cast_ray call has been made
RayIdle ==
    /\ r_width = 0 /\ r_height = 0 /\ r_cells = <<>>
    /\ start_x = 0 /\ start_y = 0 /\ dir = <<1, 0, 1>> /\ max_distance = 0
    /\ exit_x = None /\ exit_y = None
    /\ map_x = 0 /\ map_y = 0 /\ side_dist_x = <<0, 0>> /\ side_dist_y = <<0, 0>>
    /\ side = 0 /\ hit = FALSE /\ passed_exit = FALSE
    /\ exit_threshold_dist = None /\ result = None /\ rpc = "idle"

\* no render_frame call has been made
FrameIdle ==
    /\ frame_width = 0 /\ frame_height = 0 /\ column_data = <<>>
    /\ frame = <<>> /\ kinds = <<>> /\ row = 0 /\ col = 0 /\ fpc = "idle"

\* no command has been served
GameIdle == game = None /\ best_file = None /\ last_op = None /\ levels_built = 0

RestIdle == SampleIdle /\ RayIdle /\ FrameIdle /\ GameIdle

\* ------------------------------------------------------------ maze machine
\* Maze::new up to the call of generate(), plus the locals generate() declares
Init ==
    /\ width \in MinDim..MaxDim
    /\ height \in MinDim..MaxDim
    /\ seed0 \in 0..MaxSeed
    /\ rng_seed = U64(seed0)
    /\ cells = AllWalls
    /\ start = <<1, 1>>
    /\ exit = <<width - 2, height - 1>>
    /\ stack = <<>>
    /\ visited = {}
    /\ attempts = 0
    /\ exit_reached = FALSE
    /\ current = <<1, 1>>
    /\ pc = "exit"
    /\ panicked = FALSE
    /\ run = 1
    /\ prev = <<>>
    /\ DitherIdle
    /\ RestIdle

\* exit selection
PickExit ==
    /\ pc = "exit"
    /\ IF width - 2 <= 0 \/ height - 2 <= 0
       THEN /\ panicked' = TRUE
            /\ pc' = "panic"
            /\ UNCHANGED <<rng_seed, exit>>
       ELSE \E s1 \in {LcgNext(rng_seed)} : \E s2 \in {LcgNext(s1)} :
                /\ rng_seed' = s2
                /\ exit' = ExitOnEdge(ModU64(s1, 4), s2)
                /\ pc' = "start"
                /\ UNCHANGED panicked
    /\ UNCHANGED <<width, height, cells, start, seed0, stack, visited, attempts,
                   exit_reached, current, run, prev, ditherVars, restVars>>

\* one iteration of the start-selection loop; on acceptance also the four
\* statements that seed the traversal
PickStart ==
    /\ pc = "start"
    /\ \E s1 \in {LcgNext(rng_seed)} : \E s2 \in {LcgNext(s1)} :
       \E x \in {1 + ModU64(s1, width - 2)} : \E y \in {1 + ModU64(s2, height - 2)} :
           /\ rng_seed' = s2
           /\ IF Accepts(Dist2(<<x, y>>, exit), attempts)
              THEN /\ start' = <<x, y>>
                   /\ cells' = ClearCell(cells, <<x, y>>)
                   /\ visited' = visited \cup {<<x, y>>}
                   /\ stack' = Append(stack, <<x, y>>)
                   /\ exit_reached' = FALSE
                   /\ panicked' = ~InBounds(<<x, y>>)
                   /\ pc' = IF InBounds(<<x, y>>) THEN "traverse" ELSE "panic"
                   /\ UNCHANGED attempts
              ELSE /\ attempts' = attempts + 1
                   /\ UNCHANGED <<start, cells, visited, stack, exit_reached,
                                  panicked, pc>>
    /\ UNCHANGED <<width, height, exit, seed0, current, run, prev, ditherVars, restVars>>

\* one iteration of "while let Some(current) = stack.pop()"
TraverseStep ==
    /\ pc = "traverse"
    /\ stack # <<>>
    /\ \E cur \in {stack[Len(stack)]} :
       \E rest \in {SubSeq(stack, 1, Len(stack) - 1)} :
       \E neighbors \in {get_unvisited_neighbors(cur, visited)} :
           /\ exit_reached' = (exit_reached \/ AtExitArea(cur, exit))
           /\ IF neighbors = <<>>
              THEN /\ stack' = rest
                   /\ UNCHANGED <<rng_seed, cells, visited, panicked, pc>>
              ELSE \E s1 \in {LcgNext(rng_seed)} :
                   \E next \in {neighbors[1 + ModU64(s1, Len(neighbors))]} :
                   \E mid \in {remove_wall_between(cur, next)} :
                   \E ok \in {InBounds(mid) /\ InBounds(next)} :
                       /\ rng_seed' = s1
                       /\ cells' = ClearCell(ClearCell(cells, mid), next)
                       /\ visited' = visited \cup {next}
                       /\ stack' = rest \o <<cur, next>>
                       /\ panicked' = ~ok
                       /\ pc' = IF ok THEN "traverse" ELSE "panic"
    /\ UNCHANGED <<width, height, start, exit, seed0, attempts, current, run, prev,
                   ditherVars, restVars>>

\* the traversal loop ends; the exit cell is opened and, when the exit area was
\* not reached, the nearest visited cell is looked up
ConnectExit ==
    /\ pc = "traverse"
    /\ stack = <<>>
    /\ cells' = ClearCell(cells, exit)
    /\ panicked' = ~InBounds(exit)
    /\ IF ~InBounds(exit)
       THEN pc' = "panic" /\ UNCHANGED current
       ELSE IF exit_reached
       THEN pc' = "open" /\ UNCHANGED current
       ELSE pc' = "carve"
            /\ current' = NearestVisited(ClearCell(cells, exit), visited, exit)
    /\ UNCHANGED <<width, height, start, exit, seed0, rng_seed, stack, visited,
                   attempts, exit_reached, run, prev, ditherVars, restVars>>

\* one evaluation of "while current != exit { ... }"
CarveStep ==
    /\ pc = "carve"
    /\ \E n \in {CarveNext(current, exit)} :
           IF current = exit \/ n = current
           THEN pc' = "open" /\ UNCHANGED <<current, cells, panicked>>
           ELSE /\ current' = n
                /\ cells' = ClearCell(cells, n)
                /\ panicked' = ~InBounds(n)
                /\ pc' = IF InBounds(n) THEN "carve" ELSE "panic"
    /\ UNCHANGED <<width, height, start, exit, seed0, rng_seed, stack, visited,
                   attempts, exit_reached, run, prev, ditherVars, restVars>>

RECURSIVE ClearAll(_, _)
ClearAll(c, ps) ==
    IF ps = {} THEN c
    ELSE LET p == CHOOSE q \in ps : TRUE IN ClearAll(ClearCell(c, p), ps \ {p})

\* the opening in the outer wall; generate() returns
OpenExit ==
    /\ pc = "open"
    /\ \E ps \in {{exit} \cup ExitOpening(exit)} :
       \E ok \in {\A p \in ps : InBounds(p)} :
           /\ cells' = ClearAll(cells, ps)
           /\ panicked' = ~ok
           /\ pc' = IF ok THEN "done" ELSE "panic"
    /\ UNCHANGED <<width, height, start, exit, seed0, rng_seed, stack, visited,
                   attempts, exit_reached, current, run, prev, ditherVars, restVars>>

\* Maze::new(width, height) is called again and the hasher yields seed0 again
Rerun ==
    /\ pc = "done"
    /\ run < MaxRuns
    /\ run' = run + 1
    /\ prev' = <<cells, start, exit>>
    /\ rng_seed' = U64(seed0)
    /\ cells' = AllWalls
    /\ start' = <<1, 1>>
    /\ exit' = <<width - 2, height - 1>>
    /\ stack' = <<>>
    /\ visited' = {}
    /\ attempts' = 0
    /\ exit_reached' = FALSE
    /\ current' = <<1, 1>>
    /\ pc' = "exit"
    /\ UNCHANGED <<width, height, seed0, panicked, ditherVars, restVars>>

Next ==
    \/ PickExit
    \/ PickStart
    \/ TraverseStep
    \/ ConnectExit
    \/ CarveStep
    \/ OpenExit
    \/ Rerun

Spec == Init /\ [][Next]_vars

\* generate() runs to completion: no step is postponed forever
FairSpec == Spec /\ WF_vars(Next)


\* ------------------------------------------------------------ maze claims
Grid == (0..(width - 1)) \X (0..(height - 1))
OpenCells == {p \in Grid : ~cells[p[2]][p[1]]}
Adjacent(p, q) ==
    \/ (p[1] = q[1] /\ (p[2] = q[2] + 1 \/ q[2] = p[2] + 1))
    \/ (p[2] = q[2] /\ (p[1] = q[1] + 1 \/ q[1] = p[1] + 1))

RECURSIVE Flood(_, _)
\* 4-connected flood fill over the cells of open, starting from seen
Flood(seen, open) ==
    LET more == {q \in open \ seen : \E p \in seen : Adjacent(p, q)}
    IN  IF more = {} THEN seen ELSE Flood(seen \cup more, open)

Border == {p \in Grid : p[1] = 0 \/ p[1] = width - 1 \/ p[2] = 0 \/ p[2] = height - 1}
Corners == {<<0, 0>>, <<width - 1, 0>>, <<0, height - 1>>, <<width - 1, height - 1>>}
Interior == (1..(width - 2)) \X (1..(height - 2))

\* C1: in every finished maze a 4-connected flood fill from start over non-wall
\* cells reaches the exit cell.
C1_Connectivity ==
    pc = "done" => exit \in Flood({start} \cap OpenCells, OpenCells)

\* a finished maze whose exit was joined by the fallback carve and is reached
C1_Witness ==
    /\ pc = "done" /\ ~exit_reached /\ current = exit
    /\ exit \in Flood({start} \cap OpenCells, OpenCells)

\* C2: in every finished maze every border cell other than the exit is a wall.
C2_BorderWalls ==
    pc = "done" => \A p \in Border \ {exit} : cells[p[2]][p[1]]

\* C3: in every finished maze every non-wall cell is reachable from start
\* through 4-adjacent non-wall cells.
C3_AllOpenReachable ==
    pc = "done" => OpenCells \subseteq Flood({start} \cap OpenCells, OpenCells)

\* a finished maze with carved cells and an exit neighbour outside the traversal
C3_Witness ==
    /\ pc = "done" /\ ~exit_reached
    /\ ExitOpening(exit) \cap visited = {}
    /\ Cardinality(OpenCells \ visited) > Cardinality(visited)
    /\ OpenCells \subseteq Flood({start} \cap OpenCells, OpenCells)

\* C4: once chosen, the exit is a non-corner border cell and the start is an
\* interior cell, hence they differ.
C4_ExitOnEdgeStartInside ==
    /\ pc # "exit" => exit \in Border \ Corners
    /\ pc \notin {"exit", "start"} => start \in Interior /\ start # exit

\* a maze whose exit sits on the left edge and whose start sits on the last
\* interior column
C4_Witness ==
    /\ pc = "done" /\ exit[1] = 0 /\ start[1] = width - 2
    /\ exit \in Border \ Corners /\ start \in Interior

\* C5: generation never indexes outside the grid, never underflows a usize and
\* never takes a remainder by zero.
C5_NeverFails == ~panicked /\ pc # "panic"

\* a maze finished through every phase, the fallback carve included
C5_Witness ==
    pc = "done" /\ ~panicked /\ ~exit_reached /\ current = exit /\ attempts > 0

\* C6: generation terminates: the start loop makes a bounded number of draws,
\* the traversal ends with an empty stack, the carve ends on the exit cell.
C6_Terminates ==
    /\ [](pc = "exit" => <>(pc = "done"))
    /\ [](attempts <= 51)
    /\ [](pc \in {"carve", "open", "done"} => stack = <<>>)
    /\ [](pc \in {"open", "done"} /\ ~exit_reached => current = exit)

\* a finished maze whose start-selection loop used up all its retries
C6_Witness == pc = "done" /\ attempts = 51 /\ stack = <<>>

Popped == visited

\* C20: when the traversal has ended, exit_reached is true exactly when some
\* popped cell is the exit cell or one of its four axis neighbours, so the
\* fallback carve is skipped exactly in that case.
C20_ExitReachedIffNearExit ==
    pc \in {"carve", "open", "done"} =>
        (exit_reached <=> \E p \in Popped : p = exit \/ Adjacent(p, exit))

\* C21: every cell visited by the depth-first traversal, the start cell
\* included, has an odd x and an odd y coordinate.
C21_OddVisited ==
    \A p \in visited : p[1] % 2 = 1 /\ p[2] % 2 = 1

RECURSIVE Draws(_, _)
\* the first n candidates (x, y) the start-selection loop draws from rng state s
Draws(s, n) ==
    IF n = 0 THEN <<>>
    ELSE LET s1 == LcgNext(s)
             s2 == LcgNext(s1)
         IN  << <<1 + ModU64(s1, width - 2), 1 + ModU64(s2, height - 2)>> >>
             \o Draws(s2, n - 1)

\* rng_seed when the start-selection loop is entered
SeedAtStartLoop == LcgNext(LcgNext(U64(seed0)))

\* the start has just been accepted and the traversal has not popped yet
JustStarted == pc = "traverse" /\ stack = <<start>> /\ visited = {start}

RECURSIVE RejectedThenStart(_, _)
\* the next n candidates drawn from rng state s all lie within 3.0 of the exit
\* and the candidate drawn after them is start
RejectedThenStart(s, n) ==
    \E s2 \in {LcgNext(LcgNext(s))} :
    \E c \in {<<1 + ModU64(LcgNext(s), width - 2), 1 + ModU64(s2, height - 2)>>} :
        IF n = 0 THEN c = start
        ELSE Dist2(c, exit) <= 9 /\ RejectedThenStart(s2, n - 1)

ExitFor(s) ==
    ExitOnEdge(ModU64(LcgNext(U64(s)), 4), LcgNext(LcgNext(U64(s))))

\* the seeds searched for one that yields a given exit: enough of them to
\* reach every border cell of the odd sizes explored
SeedsTried == 0..(4 * (MaxSeed + 1) - 1)

\* C23 for the odd sizes: every non-corner border cell is the exit chosen for
\* some seed
OddSizesCovered ==
    (pc = "start" /\ attempts = 0 /\ run = 1 /\ seed0 = 0
        /\ width % 2 = 1 /\ height % 2 = 1) =>
        \A c \in Border \ Corners : \E s \in SeedsTried : ExitFor(s) = c

\* C23: for the width and height at hand, every non-corner border cell is the
\* exit chosen for some seed (evaluated once per size, when the exit of the
\* first maze built from seed 0 has been chosen).
C23_EveryExitCell ==
    (pc = "start" /\ attempts = 0 /\ run = 1 /\ seed0 = 0) =>
        \A c \in Border \ Corners : \E s \in SeedsTried : ExitFor(s) = c

RECURSIVE Reach(_)
\* the cells reachable from seen by the steps of 2 get_unvisited_neighbors allows
Reach(seen) ==
    LET more == UNION {{get_unvisited_neighbors(p, seen)[i] :
                           i \in 1..Len(get_unvisited_neighbors(p, seen))} :
                       p \in seen}
    IN  IF more = {} THEN seen ELSE Reach(seen \cup more)

\* the traversal loop has ended and nothing after it has run
TraversalEnded == pc = "traverse" /\ stack = <<>>

\* C28: when the traversal loop ends the visited cells are the cells reachable
\* from start by the allowed steps of 2, the cleared midpoints number one less
\* than the visited cells and join them into one connected region (a spanning
\* tree), and every push of a new cell pushes a cell not visited before.
C28_SpanningTree ==
    /\ [](TraversalEnded =>
            /\ visited = Reach({start})
            /\ Cardinality(OpenCells \ visited) = Cardinality(visited) - 1
            /\ Flood({start}, OpenCells) = OpenCells)
    /\ [][(pc = "traverse" /\ visited' # visited) =>
            /\ Cardinality(visited') = Cardinality(visited) + 1
            /\ stack'[Len(stack')] \in visited' \ visited
            /\ \A i \in 1..Len(stack) : stack[i] # stack'[Len(stack')]]_vars

\* a traversal that ended with a tree of at least six cells
C28_Witness ==
    /\ TraversalEnded /\ Cardinality(visited) >= 6
    /\ visited = Reach({start})
    /\ Cardinality(OpenCells \ visited) = Cardinality(visited) - 1


\* ------------------------------------------------------------ dithering
\* Coordinates are binary fractions; a coordinate c is held as c * Unit.
Unit == 2 ^ 10
Half == Unit \div 2

\* the normalized distance n / NdDen is held as the integer n
NdDen == 2 ^ NdBits
NdInputs == (0 - NdDen)..(2 * NdDen)

\* the four base points of generate_bayer_points
BasePoints == << <<0, 0>>, <<Half, Half>>, <<Half, 0>>, <<0, Half>> >>

\* recursion.saturating_sub(1)
SaturatingSub1(n) == IF n >= 1 THEN n - 1 ELSE 0

\* the offset taken from the depth still to go, finest first
Offset_byDepth(r) == Unit \div (2 ^ (recursion - r))

\* 0.5_f64.powi((r + 1) as i32), times Unit
Offset(r) == Unit \div (2 ^ (r + 1))

\* the point pushed for base = pts[j] and offset_vec = pts[i] (0-based i, j)
PushedPoint(pts, i, j, offset) ==
    <<pts[j + 1][1] + (pts[i + 1][1] * offset) \div Unit,
      pts[j + 1][2] + (pts[i + 1][2] * offset) \div Unit>>

\* floor() of a value held as num / NdDen, then "as usize" (saturating at 0)
FloorAsUsize(num) == IF num < 0 THEN 0 ELSE num \div NdDen

Min(a, b) == IF a <= b THEN a ELSE b

\* select_level mapping near to coarse: level_float = normalized_dist * 3.0
select_level_inverted(n) ==
    LET level_float == n * 3
        level == FloorAsUsize(level_float)
        interp == level_float - level * NdDen
    IN  <<Min(level, 3), interp>>

\* select_level with round() in place of floor()
select_level_round(n) ==
    LET level_float == (NdDen - n) * 3
        level == FloorAsUsize(level_float + NdDen \div 2)
        interp == level_float - level * NdDen
    IN  <<Min(level, 3), interp>>

\* select_level: <<level, interp * NdDen>> for normalized_dist = n / NdDen
select_level(n) ==
    LET level_float == (NdDen - n) * 3
        level == FloorAsUsize(level_float)
        interp == level_float - level * NdDen
    IN  <<Min(level, 3), interp>>

MazeIdle ==
    /\ width = MinDim /\ height = MinDim /\ seed0 = 0
    /\ rng_seed = U64(0) /\ cells = AllWalls
    /\ start = <<1, 1>> /\ exit = <<width - 2, height - 1>>
    /\ stack = <<>> /\ visited = {} /\ attempts = 0 /\ exit_reached = FALSE
    /\ current = <<1, 1>> /\ pc = "idle" /\ panicked = FALSE
    /\ run = 1 /\ prev = <<>>

\* DitherPattern::new() has been entered: BayerPatterns::new() is about to
\* evaluate generate_bayer_points(0)
DitherInit ==
    /\ MazeIdle
    /\ RestIdle
    /\ patterns = <<>>
    /\ recursion = 0
    /\ points = <<>>
    /\ r_idx = 0 /\ i_idx = 0 /\ j_idx = 0 /\ count = 0
    /\ bpc = "base"
    /\ nd = 0 /\ sel = <<>> /\ nd_prev = 0 /\ sel_prev = <<>>

\* generate_bayer_points: the base pattern
BayerBase ==
    /\ bpc = "base"
    /\ points' = BasePoints
    /\ r_idx' = 0
    /\ bpc' = "outer"
    /\ UNCHANGED <<patterns, recursion, i_idx, j_idx, count, nd, sel, nd_prev,
                   sel_prev, mazeVars, restVars>>

\* generate_bayer_points: head of "for r in 0..recursion.saturating_sub(1)";
\* when the range is used up the function returns into BayerPatterns::new,
\* which stores the level and goes on to the next one
BayerOuter ==
    /\ bpc = "outer"
    /\ IF r_idx < SaturatingSub1(recursion)
       THEN /\ count' = Len(points)
            /\ i_idx' = 1
            /\ j_idx' = 0
            /\ bpc' = "inner"
            /\ UNCHANGED <<patterns, recursion>>
       ELSE /\ patterns' = Append(patterns, points)
            /\ recursion' = IF recursion < 3 THEN recursion + 1 ELSE recursion
            /\ bpc' = IF recursion < 3 THEN "base" ELSE "built"
            /\ UNCHANGED <<count, i_idx, j_idx>>
    /\ UNCHANGED <<points, r_idx, nd, sel, nd_prev, sel_prev, mazeVars, restVars>>

\* generate_bayer_points: one points.push of "for i in 1..4 { for j in 0..count"
BayerPush ==
    /\ bpc = "inner"
    /\ points' = Append(points, PushedPoint(points, i_idx, j_idx, Offset(r_idx)))
    /\ IF j_idx + 1 < count
       THEN j_idx' = j_idx + 1 /\ UNCHANGED <<i_idx, r_idx, bpc>>
       ELSE IF i_idx + 1 < 4
       THEN j_idx' = 0 /\ i_idx' = i_idx + 1 /\ UNCHANGED <<r_idx, bpc>>
       ELSE r_idx' = r_idx + 1 /\ bpc' = "outer" /\ UNCHANGED <<i_idx, j_idx>>
    /\ UNCHANGED <<patterns, recursion, count, nd, sel, nd_prev, sel_prev, mazeVars, restVars>>

\* a call pattern.select_level(n / NdDen) on the constructed DitherPattern
SelectLevel ==
    /\ bpc = "built"
    /\ \E n \in NdInputs :
        /\ nd' = n
        /\ sel' = select_level(n)
    /\ nd_prev' = nd
    /\ sel_prev' = sel
    /\ UNCHANGED <<patterns, recursion, points, r_idx, i_idx, j_idx, count, bpc,
                   mazeVars, restVars>>

DitherNext ==
    \/ BayerBase
    \/ BayerOuter
    \/ BayerPush
    \/ SelectLevel

DitherSpec == DitherInit /\ [][DitherNext]_vars


\* ------------------------------------------------------------ sample_pattern
\* UV coordinates are the multiples of 1 / 2^UvBits in [-1, 2), held times Unit
UvDen == 2 ^ UvBits
UvInputs == {k * (Unit \div UvDen) : k \in (0 - UvDen)..(2 * UvDen - 1)}

\* pattern values are held in units of 1 / SampleDen
SampleDen == 2 ^ 6

\* std::f64::consts::PI as the fraction PiNum / PiDen
PiNum == 355
PiDen == 113

\* BayerPatterns::get_level: the stored points of a level, level_3 by default
get_level(level) == IF level \in 0..3 THEN patterns[level + 1] ELSE patterns[4]

\* the dot counts tried on a pattern of n points
DotCounts(n) == (0..SmallDots) \cup {n - 1, n, n + 1}

\* (u - p + 0.5).rem_euclid(1.0) - 0.5, times Unit
Wrapped(u, p) == ((u - p + Half) % Unit) - Half

\* vec.0 * vec.0 + vec.1 * vec.1, times Unit^2
PointDist2(uv, p) ==
    Wrapped(uv[1], p[1]) * Wrapped(uv[1], p[1])
    + Wrapped(uv[2], p[2]) * Wrapped(uv[2], p[2])

\* the square of min_dist after the loop over the first n points (n >= 1);
\* sqrt is monotone, so the least distance is the root of the least square
MinDist2(uv, pts, n) ==
    CHOOSE d \in {PointDist2(uv, pts[i]) : i \in 1..n} :
        \A i \in 1..n : d <= PointDist2(uv, pts[i])

\* floor of the square root
Isqrt(n) == CHOOSE r \in 0..(8 * SampleDen) : r * r <= n /\ n < (r + 1) * (r + 1)

\* normalized_dist = min_dist / (dot_radius * 2.4), times SampleDen, rounded
\* down: its square is min_dist^2 * max_dots * PI / (0.5 * 2.4 * 2.4), and
\* 1 / (0.5 * 2.4 * 2.4) = 25 / 72
NormalizedDist(d2, max_dots) ==
    LET t == (d2 * max_dots) \div ((Unit \div SampleDen) * (Unit \div SampleDen))
    IN  Isqrt((t * PiNum * 25) \div (PiDen * 72))

\* f64::clamp
Clamp(x, lo, hi) == IF x < lo THEN lo ELSE IF x > hi THEN hi ELSE x

\* sample_pattern returning 1.0 - normalized_dist as it is
sample_pattern_unclamped(uv, level, dot_count) ==
    LET bayer_points == get_level(level)
        max_dots == Min(dot_count, Len(bayer_points))
    IN  IF max_dots = 0 THEN 0
        ELSE SampleDen - NormalizedDist(MinDist2(uv, bayer_points, max_dots), max_dots)

\* DitherPattern::sample_pattern, the result times SampleDen
sample_pattern(uv, level, dot_count) ==
    LET bayer_points == get_level(level)
        max_dots == Min(dot_count, Len(bayer_points))
    IN  IF max_dots = 0 THEN 0
        ELSE Clamp(SampleDen
                   - NormalizedDist(MinDist2(uv, bayer_points, max_dots), max_dots),
                   0, SampleDen)

\* a call pattern.sample_pattern((u, v), level, dot_count) on the constructed
\* DitherPattern; the call takes &self and leaves the pattern as it is, so one
\* call per constructed pattern is explored
SamplePattern ==
    /\ bpc = "built"
    /\ s_args = <<>>
    /\ \E u \in UvInputs, v \in UvInputs, level \in 0..4 :
        \E dot_count \in DotCounts(Len(get_level(level))) :
            /\ s_args' = <<u, v, level, dot_count>>
            /\ s_val' = sample_pattern(<<u, v>>, level, dot_count)
    /\ UNCHANGED <<mazeVars, ditherVars, rayVars, frameVars, gameVars>>

SampleNext ==
    \/ BayerBase
    \/ BayerOuter
    \/ BayerPush
    \/ SamplePattern

SampleSpec == DitherInit /\ [][SampleNext]_vars


\* ------------------------------------------------------------ cast_ray
\* Coordinates are multiples of 1 / PosDen and held times PosDen.
PosDen == 2

\* The direction (cos, sin) of a ray is a rational point of the unit circle:
\* the four axis directions and the eight directions of the 3-4-5 triangle.
Dirs ==
    {<<1, 0, 1>>, <<0 - 1, 0, 1>>, <<0, 1, 1>>, <<0, 0 - 1, 1>>}
    \cup {<<a * 3, b * 4, 5>> : a \in {0 - 1, 1}, b \in {0 - 1, 1}}
    \cup {<<a * 4, b * 3, 5>> : a \in {0 - 1, 1}, b \in {0 - 1, 1}}

\* Distances are pairs <<h, f>> standing for (h * 1e30 + f) / DistUnit, ordered
\* by h first: every finite part met on these grids is far below 1e30.
\* DistUnit is a multiple of PosDen * 3 * 4, so every distance is whole.
DistUnit == PosDen * 12
Zero == <<0, 0>>
Fin(n) == <<0, n>>
Lt(p, q) == p[1] < q[1] \/ (p[1] = q[1] /\ p[2] < q[2])
Le(p, q) == ~Lt(q, p)
Add(p, q) == <<p[1] + q[1], p[2] + q[2]>>
Sub(p, q) == <<p[1] - q[1], p[2] - q[2]>>
MinDist(p, q) == IF Lt(q, p) THEN q ELSE p
Abs(n) == IF n < 0 THEN 0 - n ELSE n

\* delta_dist: 1e30 if the component a / c is 0.0, else (1.0 / (a / c)).abs()
DeltaDist(a, c) == IF a = 0 THEN <<DistUnit, 0>> ELSE Fin((c * DistUnit) \div Abs(a))

\* a step that never advances in the positive direction
StepOf_still(a) == IF a < 0 THEN 0 - 1 ELSE 0

\* step_x / step_y
StepOf(a) == IF a < 0 THEN 0 - 1 ELSE 1

\* (start - map) * delta_dist or (map + 1.0 - start) * delta_dist
SideDist0(s, m, a, c) ==
    LET k == IF a < 0 THEN s - m * PosDen ELSE (m + 1) * PosDen - s
        d == DeltaDist(a, c)
    IN  <<(d[1] * k) \div PosDen, (d[2] * k) \div PosDen>>

\* "as i32" of a non-negative coordinate
AsI32(s) == s \div PosDen

\* the bounds test of lines 110 and 123
OutOfGrid(mx, my) == mx < 0 \/ my < 0 \/ mx >= r_width \/ my >= r_height

\* both exit coordinates are given
ExitGiven == exit_x # None /\ exit_y # None

\* the test of lines 79-80 without the comparison of the cell stepped into
EntersExit_leaving(px, py, mx, my) ==
    /\ ExitGiven
    /\ (px # AsI32(exit_x[1]) \/ py # AsI32(exit_y[1]))

\* lines 79-80: the step went from a cell other than the exit's into the exit's
EntersExit(px, py, mx, my) ==
    /\ ExitGiven
    /\ (px # AsI32(exit_x[1]) \/ py # AsI32(exit_y[1]))
    /\ mx = AsI32(exit_x[1]) /\ my = AsI32(exit_y[1])

\* is_exit without the test
IsExit_never(mx, my) == FALSE

\* lines 128-132: is_exit
IsExit(mx, my) ==
    IF ExitGiven THEN mx = AsI32(exit_x[1]) /\ my = AsI32(exit_y[1]) ELSE FALSE

\* (e - s) / (a / c)
AlongAxis(e, s, a, c) ==
    Fin(((e - s) * c * (DistUnit \div PosDen) * StepOf(a)) \div Abs(a))

\* lines 88-99: threshold_dist, from the side distances after the step
ThresholdDist(sd, sdx, sdy) ==
    IF Abs(dir[1]) > Abs(dir[2]) THEN AlongAxis(exit_x[1], start_x, dir[1], dir[3])
    ELSE IF dir[2] # 0 THEN AlongAxis(exit_y[1], start_y, dir[2], dir[3])
    ELSE IF sd = 0 THEN Sub(sdx, DeltaDist(dir[1], dir[3]))
    ELSE Sub(sdy, DeltaDist(dir[2], dir[3]))

\* hit coordinates are held times HitUnit
HitUnit == DistUnit * 5
\* start + (a / c) * distance
HitCoord(s, a, c, d) == s * (HitUnit \div PosDen) + a * d[2] * (5 \div c)

\* wall_type values as named in get_ascii_char and in the comments of the
\* wall_type computation
North == 0
South == 1
West == 2
East == 3

\* wall_type with the two values of each axis exchanged
WallType_flipped(sd) ==
    IF sd = 0 THEN (IF StepOf(dir[1]) > 0 THEN 2 ELSE 3)
    ELSE (IF StepOf(dir[2]) > 0 THEN 0 ELSE 1)

\* lines 150-154: wall_type from the axis and direction of the last step
WallType(sd) ==
    IF sd = 0 THEN (IF StepOf(dir[1]) > 0 THEN 3 ELSE 2)
    ELSE (IF StepOf(dir[2]) > 0 THEN 1 ELSE 0)

\* the early return reporting max_distance whatever the threshold
EarlyDistance_max(etd) == Fin(max_distance * DistUnit)

\* line 112: exit_threshold_dist.unwrap_or(max_distance)
EarlyDistance(etd) == IF etd = None THEN Fin(max_distance * DistUnit) ELSE etd[1]

\* perp_wall_dist of lines 139-143 taken before the last step
PerpWallDist_ahead(sd, sdx, sdy) == IF sd = 0 THEN sdx ELSE sdy

\* lines 139-143: perp_wall_dist
PerpWallDist(sd, sdx, sdy) ==
    IF sd = 0 THEN Sub(sdx, DeltaDist(dir[1], dir[3]))
    ELSE Sub(sdy, DeltaDist(dir[2], dir[3]))

RaycastResult(d, wt, pe, etd) ==
    [distance |-> d, wall_type |-> wt,
     hit_x |-> HitCoord(start_x, dir[1], dir[3], d),
     hit_y |-> HitCoord(start_y, dir[2], dir[3], d),
     passed_exit |-> pe, exit_threshold_dist |-> etd]

\* the cell centres of an axis of n cells, times PosDen
Centres(n) == {k * PosDen + PosDen \div 2 : k \in 0..(n - 1)}

\* cast_ray has been entered and has run its set-up (lines 21-59). The maze is
\* any grid of RayW x RayH cells: a ray reads a cell at most once, so the flag
\* of a cell is drawn when the ray first reads it; the flag of the exit's cell
\* is drawn here.
RayInit ==
    /\ MazeIdle /\ DitherIdle /\ SampleIdle /\ FrameIdle /\ GameIdle
    /\ r_width = RayW /\ r_height = RayH
    /\ start_x \in 0..(RayW * PosDen - 1)
    /\ start_y \in 0..(RayH * PosDen - 1)
    /\ dir \in Dirs
    /\ max_distance \in {NearMax, FarMax}
    /\ exit_x \in {None} \cup {Some(e) : e \in Centres(RayW)}
    /\ exit_y \in {None} \cup {Some(e) : e \in Centres(RayH)}
    /\ r_cells \in IF ExitGiven
                  THEN [{<<AsI32(exit_x[1]), AsI32(exit_y[1])>>} -> BOOLEAN]
                  ELSE {<<>>}
    /\ map_x = AsI32(start_x) /\ map_y = AsI32(start_y)
    /\ side_dist_x = SideDist0(start_x, map_x, dir[1], dir[3])
    /\ side_dist_y = SideDist0(start_y, map_y, dir[2], dir[3])
    /\ side = 0 /\ hit = FALSE /\ passed_exit = FALSE
    /\ exit_threshold_dist = None
    /\ result = None
    /\ rpc = "loop"

\* one iteration of "while !hit" (lines 61-137)
RayStep ==
    /\ rpc = "loop"
    /\ \E sx \in {Lt(side_dist_x, side_dist_y)} :
       \E nx \in {IF sx THEN map_x + StepOf(dir[1]) ELSE map_x},
          ny \in {IF sx THEN map_y ELSE map_y + StepOf(dir[2])},
          sdx \in {IF sx THEN Add(side_dist_x, DeltaDist(dir[1], dir[3]))
                   ELSE side_dist_x},
          sdy \in {IF sx THEN side_dist_y
                   ELSE Add(side_dist_y, DeltaDist(dir[2], dir[3]))},
          sd \in {IF sx THEN 0 ELSE 1} :
       \E th \in {IF EntersExit(map_x, map_y, nx, ny)
                  THEN Some(ThresholdDist(sd, sdx, sdy)) ELSE None} :
       \E found \in {th # None /\ Lt(Zero, th[1])} :
       \E pe \in {passed_exit \/ found},
          etd \in {IF found THEN th ELSE exit_threshold_dist} :
          /\ map_x' = nx /\ map_y' = ny
          /\ side_dist_x' = sdx /\ side_dist_y' = sdy
          /\ side' = sd
          /\ passed_exit' = pe
          /\ exit_threshold_dist' = etd
          /\ IF pe /\ OutOfGrid(nx, ny)
             THEN /\ result' = Some(RaycastResult(EarlyDistance(etd), 0, TRUE, etd))
                  /\ rpc' = "done"
                  /\ UNCHANGED <<hit, r_cells>>
             ELSE IF OutOfGrid(nx, ny)
             THEN /\ rpc' = "after"
                  /\ UNCHANGED <<hit, r_cells, result>>
             ELSE IF IsExit(nx, ny)
             THEN UNCHANGED <<hit, r_cells, result, rpc>>
             ELSE \E w \in IF <<nx, ny>> \in DOMAIN r_cells
                           THEN {r_cells[<<nx, ny>>]} ELSE BOOLEAN :
                    /\ r_cells' = [c \in DOMAIN r_cells \cup {<<nx, ny>>} |->
                                      IF c = <<nx, ny>> THEN w ELSE r_cells[c]]
                    /\ hit' = w
                    /\ rpc' = IF w THEN "after" ELSE "loop"
                    /\ UNCHANGED result
    /\ UNCHANGED <<r_width, r_height, start_x, start_y, dir, max_distance,
                   exit_x, exit_y, mazeVars, ditherVars, sampleVars, frameVars, gameVars>>

\* the code after the loop (lines 139-163)
RayFinish ==
    /\ rpc = "after"
    /\ \E distance \in {MinDist(PerpWallDist(side, side_dist_x, side_dist_y),
                                Fin(max_distance * DistUnit))} :
        result' = Some(RaycastResult(distance, WallType(side), passed_exit,
                                     exit_threshold_dist))
    /\ rpc' = "done"
    /\ UNCHANGED <<r_width, r_height, r_cells, start_x, start_y, dir, max_distance,
                   exit_x, exit_y, map_x, map_y, side_dist_x, side_dist_y, side,
                   hit, passed_exit, exit_threshold_dist,
                   mazeVars, ditherVars, sampleVars, frameVars, gameVars>>

RayNext ==
    \/ RayStep
    \/ RayFinish

RaySpec == RayInit /\ [][RayNext]_vars

\* the loop is left in the end if every step that can be taken is taken
FairRaySpec == RaySpec /\ WF_vars(RayNext)


\* ------------------------------------------------------------ render_frame
\* the distances of the columns, times DistUnit: zero (below the 0.01 cut of
\* wall_height), the least distance above it, half cells, and max_distance
RenderDists ==
    {0, 1} \cup {(k * DistUnit) \div 2 : k \in 1..FrameDist}
    \cup {FarMax * DistUnit}

\* what render_frame keeps of a RaycastResult: passed_exit is set together with
\* a threshold, which is the distance itself on the early return
ColumnInputs ==
    {<<d, FALSE, None>> : d \in RenderDists}
    \cup UNION {{<<d, TRUE, Some(t)>> : t \in {d, DistUnit}} :
                    d \in RenderDists}

\* wall_render_dist > 0.01, the distance being d / DistUnit
AboveCut(d) == d * 100 > DistUnit

\* wall_height as usize: floor of (height / d).min(height * 2.0), or of
\* height * 2.0 at or below the cut
WallHeightFloor(d) ==
    IF AboveCut(d)
    THEN (IF frame_height * DistUnit >= 2 * frame_height * d
          THEN 2 * frame_height ELSE (frame_height * DistUnit) \div d)
    ELSE 2 * frame_height

\* wall_start = ((height - wall_height) / 2.0) as usize: the cast rounds
\* towards zero and maps negative values to 0
WallStart(d) ==
    IF AboveCut(d) /\ d > DistUnit
    THEN (frame_height * (d - DistUnit)) \div (2 * d)
    ELSE 0

\* wall_end without the cap at height
WallEnd_uncapped(d) == WallStart(d) + WallHeightFloor(d)

\* wall_end = (wall_start + wall_height as usize).min(height)
WallEnd(d) == Min(WallStart(d) + WallHeightFloor(d), frame_height)

\* get_dithered_ascii_char_with_row: a glyph of the wall shading ramp (named
\* "w0" .. "w4" from the nearest to the farthest), by the bucket of
\* d / max_distance: < 0.1, < 0.3, < 0.5, < 0.7, else
get_dithered_ascii_char_with_row(d) ==
    IF 10 * d < FarMax * DistUnit THEN "w0"
    ELSE IF 10 * d < 3 * FarMax * DistUnit THEN "w1"
    ELSE IF 10 * d < 5 * FarMax * DistUnit THEN "w2"
    ELSE IF 10 * d < 7 * FarMax * DistUnit THEN "w3"
    ELSE "w4"

\* calculate_floor_distance(row) < t / DistUnit, with
\* p = (row - height / 2) / (height / 2) and distance = 1 / p.max(0.1)
FloorNearer(r, t) ==
    IF 10 * (2 * r - frame_height) >= frame_height
    THEN frame_height * DistUnit < t * (2 * r - frame_height)
    ELSE 10 * DistUnit < t

\* get_floor_char(floor_dist, max_distance) for floor_dist below max_distance
get_floor_char(r) ==
    IF FloorNearer(r, 6 * DistUnit) THEN "."
    ELSE IF FloorNearer(r, 12 * DistUnit) THEN "," ELSE " "

\* the floor branch of render_frame for a column <<d, passed_exit, threshold>>
FloorGlyph(r, c) ==
    IF c[2]
    THEN (IF c[3] # None /\ FloorNearer(r, c[3][1]) THEN get_floor_char(r) ELSE " ")
    ELSE (IF FloorNearer(r, FarMax * DistUnit) THEN get_floor_char(r) ELSE " ")

\* |wall_render_dist - threshold_dist| < 0.2
NearThreshold(d, t) == 5 * Abs(d - t) < DistUnit

\* where the row loop starts or goes on
RowEntry(r) ==
    IF r >= frame_height THEN "done"
    ELSE IF frame_width = 0 THEN "rowend" ELSE "cell"

\* render_frame has been entered and has filled column_data (lines 391-419)
RenderInit ==
    /\ MazeIdle /\ DitherIdle /\ SampleIdle /\ RayIdle /\ GameIdle
    /\ frame_width \in 0..FrameW
    /\ frame_height \in 0..FrameH
    /\ column_data \in [1..frame_width -> ColumnInputs]
    /\ frame = <<>> /\ kinds = <<>>
    /\ row = 0 /\ col = 0
    /\ fpc = RowEntry(0)

\* one iteration of "for col in 0..width" (lines 423-507): one frame.push
RenderCell ==
    /\ fpc = "cell"
    /\ \E c \in {column_data[col + 1]} :
       \E wall_start \in {WallStart(c[1])}, wall_end \in {WallEnd(c[1])} :
          IF row < wall_start
          THEN frame' = Append(frame, " ") /\ kinds' = Append(kinds, "ceiling")
          ELSE IF row < wall_end
          THEN /\ kinds' = Append(kinds, "wall")
               /\ IF c[2] /\ c[3] # None /\ NearThreshold(c[1], c[3][1])
                  THEN frame' = Append(frame, " ")
                  ELSE frame' = Append(frame, get_dithered_ascii_char_with_row(c[1]))
          ELSE /\ kinds' = Append(kinds, "floor")
               /\ frame' = Append(frame, FloorGlyph(row, c))
    /\ IF col + 1 < frame_width
       THEN col' = col + 1 /\ UNCHANGED fpc
       ELSE col' = 0 /\ fpc' = "rowend"
    /\ UNCHANGED <<frame_width, frame_height, column_data, row,
                   mazeVars, ditherVars, sampleVars, rayVars, gameVars>>

\* the end of one iteration of "for row in 0..height" (lines 510-512)
RenderRowEnd ==
    /\ fpc = "rowend"
    /\ IF row < frame_height - 1
       THEN frame' = Append(frame, "\n") /\ kinds' = Append(kinds, "newline")
       ELSE UNCHANGED <<frame, kinds>>
    /\ row' = row + 1
    /\ fpc' = RowEntry(row + 1)
    /\ UNCHANGED <<frame_width, frame_height, column_data, col,
                   mazeVars, ditherVars, sampleVars, rayVars, gameVars>>

RenderNext ==
    \/ RenderCell
    \/ RenderRowEnd

RenderSpec == RenderInit /\ [][RenderNext]_vars


\* ------------------------------------------------------------ game state
\* Player coordinates are multiples of 1 / PUnit and held times PUnit.
PUnit == 60

\* move_speed = 1.8 * delta_time, for the delta_time (below the cap of 0.1)
\* that makes it a sixth of a cell
MoveStep == PUnit \div 6

\* the last level: "current_level < 5", "current_level == 5"
LastLevel == 5

\* current_time - level_start_time when a level is won, in whole seconds
Elapsed == 1..MaxElapsed

\* vec![None; 5]
NoTimes == [i \in 1..LastLevel |-> None]

\* maze_size ignoring the level
maze_size_fixed(level) == 8

\* maze_size of new_level
maze_size(level) == 7 + level

\* Maze::is_wall
is_wall(m, x, y) ==
    IF x >= m.width \/ y >= m.height THEN TRUE ELSE m.cells[y][x]

\* "x as usize" of a coordinate held times PUnit: the cast rounds towards zero
\* and maps negative values to 0
AsUsize(c) == IF c < 0 THEN 0 ELSE c \div PUnit

\* Maze::get_cell
get_cell(m, x, y) == is_wall(m, AsUsize(x), AsUsize(y))

\* player_angle is held in quarter turns; dy.atan2(dx) rounded to one
Atan2Quarter(dx, dy) ==
    IF Abs(dx) >= Abs(dy) THEN (IF dx >= 0 THEN 0 ELSE 2)
    ELSE (IF dy > 0 THEN 1 ELSE 0 - 1)

\* initial_angle of new_level: the first open neighbour of start among east,
\* south, west, north
initial_angle(m) ==
    LET sx == m.start[1]
        sy == m.start[2]
    IN  IF sx + 1 < m.width /\ ~is_wall(m, sx + 1, sy) THEN 0
        ELSE IF sy + 1 < m.height /\ ~is_wall(m, sx, sy + 1) THEN 1
        ELSE IF sx > 0 /\ ~is_wall(m, sx - 1, sy) THEN 2
        ELSE IF sy > 0 /\ ~is_wall(m, sx, sy - 1) THEN 0 - 1
        ELSE Atan2Quarter(m.exit[1] - sx, m.exit[2] - sy)

\* GameState::new_level on the maze m that Maze::new(maze_size, maze_size)
\* returned; times are counted from the start of the level
new_level(level, run_times, best_times, best_total_time, total_time, m, angle) ==
    [player_x |-> m.start[1] * PUnit + PUnit \div 2,
     player_y |-> m.start[2] * PUnit + PUnit \div 2,
     player_angle |-> angle,
     maze |-> m,
     exit_x |-> m.exit[1] * PUnit + PUnit \div 2,
     exit_y |-> m.exit[2] * PUnit + PUnit \div 2,
     has_won |-> FALSE,
     current_level |-> level,
     level_start_time |-> 0,
     level_completion_time |-> None,
     total_time |-> total_time,
     run_times |-> run_times,
     best_times |-> best_times,
     best_total_time |-> best_total_time,
     new_record_level |-> None,
     new_record_total |-> FALSE]

\* GameState::load_best_times: the defaults when there is no readable file
load_best_times(file) == IF file = None THEN <<NoTimes, None>> ELSE file[1]

\* GameState::new
GameState_new(file, m, angle) ==
    new_level(1, NoTimes, load_best_times(file)[1], load_best_times(file)[2],
              0, m, angle)

\* GameState::next_level
next_level(g, file, m, angle) ==
    IF g.current_level < LastLevel
    THEN new_level(g.current_level + 1,
                   [g.run_times EXCEPT ![g.current_level] = g.level_completion_time],
                   g.best_times, g.best_total_time, g.total_time, m, angle)
    ELSE GameState_new(file, m, angle)

\* the normalisation of player_angle: "%" keeps the sign of the dividend
Normalize(q) ==
    LET r == IF q < 0 THEN 0 - ((0 - q) % 4) ELSE q % 4
    IN  IF r < 0 THEN r + 4 ELSE r

\* (cos, sin) of a normalised angle
Heading(q) ==
    CASE q = 0 -> <<1, 0>>
      [] q = 1 -> <<0, 1>>
      [] q = 2 -> <<0 - 1, 0>>
      [] OTHER -> <<0, 0 - 1>>

\* one of the four movement blocks: the move by d is applied when get_cell
\* reports no wall at the target
TryMove(m, p, d) ==
    LET n == <<p[1] + d[1] * MoveStep, p[2] + d[2] * MoveStep>>
    IN  IF ~get_cell(m, n[1], n[2]) THEN n ELSE p

\* lines 285-338 of update: <<player_x, player_y, player_angle>> after the
\* rotation and the four movement blocks
Moved(g, in) ==
    LET q  == Normalize(g.player_angle + in.turn)
        p0 == <<g.player_x, g.player_y>>
        p1 == IF in.forward THEN TryMove(g.maze, p0, Heading(q)) ELSE p0
        p2 == IF in.backward
              THEN TryMove(g.maze, p1, <<0 - Heading(q)[1], 0 - Heading(q)[2]>>)
              ELSE p1
        p3 == IF in.left THEN TryMove(g.maze, p2, Heading(Normalize(q - 1))) ELSE p2
        p4 == IF in.right THEN TryMove(g.maze, p3, Heading(Normalize(q + 1))) ELSE p3
    IN  <<p4[1], p4[2], q>>

\* dist_to_exit < 0.5
NearExit(g) ==
    (g.player_x - g.exit_x) * (g.player_x - g.exit_x)
        + (g.player_y - g.exit_y) * (g.player_y - g.exit_y)
    < (PUnit \div 2) * (PUnit \div 2)

\* the record test counting a tie as a record
IsRecord_tie(best, t) == best = None \/ best[1] >= t

\* "best.is_none() || best.unwrap() > t" of lines 361-362 and 379-380
IsRecord(best, t) == best = None \/ best[1] > t

\* lines 343-384 of update: the level is won after level_time seconds
Win(g, level_time) ==
    LET idx    == g.current_level
        record == IsRecord(g.best_times[idx], level_time)
        total  == g.total_time + level_time
        rtotal == g.current_level = LastLevel /\ IsRecord(g.best_total_time, total)
    IN  [g EXCEPT
            !.has_won = TRUE,
            !.player_x = g.exit_x - (g.exit_x - g.player_x) \div 10,
            !.player_y = g.exit_y - (g.exit_y - g.player_y) \div 10,
            !.level_completion_time = Some(level_time),
            !.best_times = IF record THEN [@ EXCEPT ![idx] = Some(level_time)] ELSE @,
            !.new_record_level = IF record THEN Some(g.current_level) ELSE @,
            !.run_times = [@ EXCEPT ![idx] = Some(level_time)],
            !.total_time = total,
            !.best_total_time = IF rtotal THEN Some(total) ELSE @,
            !.new_record_total = IF rtotal THEN TRUE ELSE @]

\* the GameState after lines 285-338 left the player at mv
Placed(g, mv) ==
    [g EXCEPT !.player_x = mv[1], !.player_y = mv[2], !.player_angle = mv[3]]

\* update without the early return on has_won
update_unguarded(g, mv, now) ==
    IF NearExit(Placed(g, mv)) /\ ~g.has_won
    THEN Win(Placed(g, mv), now - g.level_start_time)
    ELSE Placed(g, mv)

\* GameState::update, mv being the outcome of lines 285-338
update(g, mv, now) ==
    IF g.has_won THEN g
    ELSE IF NearExit(Placed(g, mv)) /\ ~g.has_won
    THEN Win(Placed(g, mv), now - g.level_start_time)
    ELSE Placed(g, mv)

\* update reaches save_best_times
Saves(g, mv) == ~g.has_won /\ NearExit(Placed(g, mv))

\* save_best_times: fs::write succeeds (ok) or fails and leaves the file
save_best_times(file, g, ok) ==
    IF ok THEN Some(<<g.best_times, g.best_total_time>>) ELSE file

\* what is remembered of a command
Op(name, saved) == Some([op |-> name, saved |-> saved])

\* PlayerInput: the keys held and the rotation of this frame in quarter turns
\* (turn_left, turn_right and mouse_delta_x together)
Inputs ==
    {in \in [forward : BOOLEAN, backward : BOOLEAN, left : BOOLEAN,
             right : BOOLEAN, turn : {0, 1}] :
        \/ Cardinality({k \in {"f", "b", "l", "r"} :
              \/ (k = "f" /\ in.forward) \/ (k = "b" /\ in.backward)
              \/ (k = "l" /\ in.left) \/ (k = "r" /\ in.right)}) <= 1
        \/ (in.forward /\ in.left /\ ~in.backward /\ ~in.right)}

\* the Maze held by the maze machine, as MazeData
MazeOf == [width |-> width, height |-> height, cells |-> cells,
           start |-> start, exit |-> exit]

\* ---- the first level on a generated maze (MoveSpec)
\* init_game has called GameState::new, which has called Maze::new(8, 8)
MoveInit ==
    /\ width = maze_size(1)
    /\ height = maze_size(1)
    /\ seed0 \in 0..MaxSeed
    /\ rng_seed = U64(seed0)
    /\ cells = AllWalls
    /\ start = <<1, 1>>
    /\ exit = <<width - 2, height - 1>>
    /\ stack = <<>>
    /\ visited = {}
    /\ attempts = 0
    /\ exit_reached = FALSE
    /\ current = <<1, 1>>
    /\ pc = "exit"
    /\ panicked = FALSE
    /\ run = 1
    /\ prev = <<>>
    /\ DitherIdle
    /\ RestIdle

\* the player is followed up to MaxOutside cells outside the grid
Followed(mv) ==
    /\ mv[1] >= 0 - MaxOutside * PUnit /\ mv[1] <= (width + MaxOutside) * PUnit
    /\ mv[2] >= 0 - MaxOutside * PUnit /\ mv[2] <= (height + MaxOutside) * PUnit

\* Maze::new has returned: the rest of new_level, and init_game returns
NewGame ==
    /\ pc = "done"
    /\ game = None
    /\ game' = Some(GameState_new(best_file, MazeOf, initial_angle(MazeOf)))
    /\ last_op' = Op("init_game", FALSE)
    /\ levels_built' = levels_built + 1
    /\ UNCHANGED <<best_file, mazeVars, ditherVars, sampleVars, rayVars, frameVars>>

\* update_game on the generated maze
MoveUpdate ==
    /\ game # None
    /\ \E in \in Inputs : \E mv \in {Moved(game[1], in)} :
       \E now \in IF Saves(game[1], mv) THEN Elapsed ELSE {MaxElapsed} :
       \E ok \in IF Saves(game[1], mv) THEN BOOLEAN ELSE {TRUE} :
           /\ Followed(mv)
           /\ game' = Some(update(game[1], mv, now))
           /\ best_file' = IF Saves(game[1], mv)
                           THEN save_best_times(best_file, update(game[1], mv, now), ok)
                           ELSE best_file
           /\ last_op' = Op("update", Saves(game[1], mv))
    /\ UNCHANGED <<levels_built, mazeVars, ditherVars, sampleVars, rayVars, frameVars>>

MoveNext ==
    \/ PickExit
    \/ PickStart
    \/ TraverseStep
    \/ ConnectExit
    \/ CarveStep
    \/ OpenExit
    \/ NewGame
    \/ MoveUpdate

MoveSpec == MoveInit /\ [][MoveNext]_vars

\* ---- levels, times and records (GameSpec)
\* Of the maze of a level GameSpec keeps the size, the start and the exit; its
\* cells are not built, and the movement blocks of update leave the player on
\* one of a few spots instead, facing as before.
LevelMazes(level) ==
    {[width |-> maze_size(level), height |-> maze_size(level), cells |-> <<>>,
      start |-> <<maze_size(level) - 2, 1>>, exit |-> e] :
        e \in {<<maze_size(level) - 1, maze_size(level) - 2>>}}

\* the unit vector from the exit cell into the grid
Inward(m) ==
    IF m.exit[2] = 0 THEN <<0, 1>>
    ELSE IF m.exit[1] = m.width - 1 THEN <<0 - 1, 0>>
    ELSE IF m.exit[2] = m.height - 1 THEN <<0, 0 - 1>>
    ELSE <<1, 0>>

\* where lines 301-338 may leave the player: where they were, the point at
\* 0.5 from the exit centre and a point nearer
Spots(g) ==
    {<<g.player_x, g.player_y>>,
     <<g.exit_x + Inward(g.maze)[1] * (PUnit \div 2),
       g.exit_y + Inward(g.maze)[2] * (PUnit \div 2)>>,
     <<g.exit_x + Inward(g.maze)[1] * (PUnit \div 2 - MoveStep),
       g.exit_y + Inward(g.maze)[2] * (PUnit \div 2 - MoveStep)>>}

\* best_times.json before the session: absent, or holding a time for every
\* level and for the run
InitialFiles ==
    {None,
     Some(<<[i \in 1..LastLevel |-> Some(MaxElapsed)], Some(LastLevel * MaxElapsed)>>)}

\* init_game has returned
GameInit ==
    /\ MazeIdle /\ DitherIdle /\ SampleIdle /\ RayIdle /\ FrameIdle
    /\ best_file \in InitialFiles
    /\ \E m \in LevelMazes(1) : game = Some(GameState_new(best_file, m, 0))
    /\ last_op = Op("init_game", FALSE)
    /\ levels_built = 1

\* restart_game (init_game runs the same code)
RestartGame ==
    /\ game # None
    /\ levels_built < MaxBuilt
    /\ \E m \in LevelMazes(1) : game' = Some(GameState_new(best_file, m, 0))
    /\ last_op' = Op("restart_game", FALSE)
    /\ levels_built' = levels_built + 1
    /\ UNCHANGED <<best_file, mazeVars, ditherVars, sampleVars, rayVars, frameVars>>

\* update_game
Update ==
    /\ game # None
    /\ \E p \in Spots(game[1]) :
       \E mv \in {<<p[1], p[2], Normalize(game[1].player_angle)>>} :
       \E now \in IF Saves(game[1], mv) THEN Elapsed ELSE {MaxElapsed} :
       \E ok \in IF Saves(game[1], mv) THEN BOOLEAN ELSE {TRUE} :
           /\ game' = Some(update(game[1], mv, now))
           /\ best_file' = IF Saves(game[1], mv)
                           THEN save_best_times(best_file, update(game[1], mv, now), ok)
                           ELSE best_file
           /\ last_op' = Op("update", Saves(game[1], mv))
    /\ UNCHANGED <<levels_built, mazeVars, ditherVars, sampleVars, rayVars, frameVars>>

\* the next_level command
NextLevel ==
    /\ game # None
    /\ levels_built < MaxBuilt
    /\ \E m \in LevelMazes(IF game[1].current_level < LastLevel
                           THEN game[1].current_level + 1 ELSE 1) :
           game' = Some(next_level(game[1], best_file, m, 0))
    /\ last_op' = Op("next_level", FALSE)
    /\ levels_built' = levels_built + 1
    /\ UNCHANGED <<best_file, mazeVars, ditherVars, sampleVars, rayVars, frameVars>>

GameNext ==
    \/ RestartGame
    \/ Update
    \/ NextLevel

GameSpec == GameInit /\ [][GameNext]_vars


\* ------------------------------------------------------------ dither claims
\* C8: the point sets of recursion levels 0, 1, 2 and 3 hold 4, 16, 64 and 256
\* points, as returned by generate_bayer_points(level) and as stored in
\* BayerPatterns::new().level_0..level_3.
C8_PointCounts ==
    /\ (bpc = "outer" /\ r_idx >= SaturatingSub1(recursion))
           => Len(points) = 4 ^ (recursion + 1)
    /\ \A k \in 1..Len(patterns) : Len(patterns[k]) = 4 ^ k

\* C9 as stated: select_level(0.0) = (3, 0.0) and select_level(1.0) = (0, 1.0).
C9_AsStated ==
    sel # <<>> =>
        /\ nd = 0 => sel = <<3, 0>>
        /\ nd = NdDen => sel = <<0, NdDen>>

\* C9 amended: select_level(0.0) = (3, 0.0) and select_level(1.0) = (0, 0.0).
C9_SelectLevelEnds ==
    sel # <<>> =>
        /\ nd = 0 => sel = <<3, 0>>
        /\ nd = NdDen => sel = <<0, 0>>

\* select_level(0.0) was called and then select_level(1.0)
C9_Witness ==
    /\ sel_prev # <<>> /\ nd_prev = 0 /\ sel_prev = <<3, 0>>
    /\ nd = NdDen /\ sel = <<0, 0>>

InUnit(n) == 0 <= n /\ n <= NdDen

\* C10: for a normalized distance in [0,1] select_level returns a level in 0..3
\* and an interpolation factor in [0,1], and of two such distances the larger
\* never gets the larger level.
C10_LevelRangeMonotone ==
    /\ (sel # <<>> /\ InUnit(nd)) =>
           sel[1] \in 0..3 /\ 0 <= sel[2] /\ sel[2] <= NdDen
    /\ (sel # <<>> /\ sel_prev # <<>> /\ InUnit(nd) /\ InUnit(nd_prev)
            /\ nd_prev <= nd) => sel_prev[1] >= sel[1]

\* two calls inside [0,1], the second farther, coarser and with a fractional
\* interpolation factor
C10_Witness ==
    /\ sel # <<>> /\ sel_prev # <<>> /\ InUnit(nd) /\ InUnit(nd_prev)
    /\ nd_prev < nd /\ sel_prev[1] > sel[1]
    /\ 0 < sel[2] /\ sel[2] < NdDen /\ sel[1] \in 0..3

IsPrefix(s, t) == Len(s) <= Len(t) /\ SubSeq(t, 1, Len(s)) = s

\* C17: for each L in 0..2 the point sequence of level L is a prefix of the
\* point sequence of level L + 1: building a finer level only appends points.
C17_LevelPrefix ==
    /\ \A k \in 1..(Len(patterns) - 1) : IsPrefix(patterns[k], patterns[k + 1])
    /\ (bpc \in {"outer", "inner"} /\ recursion > 0) =>
           \/ IsPrefix(points, patterns[recursion])
           \/ IsPrefix(patterns[recursion], points)

\* all four levels are stored, each a prefix of the next, the last two longer
\* than the one before
C17_Witness ==
    /\ bpc = "built" /\ Len(patterns) = 4
    /\ \A k \in 1..3 : IsPrefix(patterns[k], patterns[k + 1])
    /\ Len(patterns[2]) < Len(patterns[3]) /\ Len(patterns[3]) < Len(patterns[4])

\* C18: sample_pattern returns a value in [0,1] for every UV coordinate
\* (negative and greater than one included), every level 0..=3 and every
\* dot_count, and returns 0.0 when dot_count is 0.
C18_SampleInUnit ==
    s_args # <<>> =>
        /\ 0 <= s_val /\ s_val <= SampleDen
        /\ s_args[4] = 0 => s_val = 0

\* a call with a negative u and a v greater than one on level 3 whose value lies
\* strictly inside (0, 1)
C18_Witness ==
    /\ s_args # <<>> /\ s_args[1] < 0 /\ s_args[2] > Unit /\ s_args[3] = 3
    /\ s_args[4] > 0 /\ 0 < s_val /\ s_val < SampleDen


\* ------------------------------------------------------------ cast_ray claims
\* the cell of the exit point, when both coordinates are given
ExitCell == <<AsI32(exit_x[1]), AsI32(exit_y[1])>>
MaxDist == Fin(max_distance * DistUnit)

\* cast_ray returned through the early return of lines 110-121
EarlyReturn == result # None /\ passed_exit /\ OutOfGrid(map_x, map_y)
\* cast_ray returned through the code after the loop, having left the grid
LeftGrid == result # None /\ ~passed_exit /\ OutOfGrid(map_x, map_y)
\* cast_ray returned through the code after the loop
FinalReturn == result # None /\ ~EarlyReturn

\* C11: every RaycastResult returned by cast_ray, on every return path, has
\* 0 <= distance <= max_distance.
C11_DistanceInRange ==
    result # None =>
        Le(Zero, result[1].distance) /\ Le(result[1].distance, MaxDist)

\* C12: cast_ray never stops on the exit's cell: while the ray is in that cell
\* hit stays false and the loop goes on, even if the cell is flagged as a wall,
\* so no returned wall hit lies in the exit cell.
C12_NeverStopsOnExit ==
    (rpc # "idle" /\ ExitGiven /\ <<map_x, map_y>> = ExitCell) =>
        ~hit /\ rpc = "loop" /\ result = None

\* a ray went through an exit cell flagged as a wall and hit a wall behind it
C12_Witness ==
    /\ result # None /\ hit /\ passed_exit /\ ExitGiven
    /\ r_cells[ExitCell] /\ <<map_x, map_y>> # ExitCell

\* the number of steps left before each axis leaves the grid
Rank ==
    (IF dir[1] < 0 THEN map_x + 1 ELSE r_width - map_x)
    + (IF dir[2] < 0 THEN map_y + 1 ELSE r_height - map_y)

\* C13: the DDA loop of cast_ray terminates for every ray origin, angle and
\* finite maze: every iteration moves the ray one cell nearer to leaving the
\* grid, and the call returns.
C13_Terminates ==
    /\ [](rpc = "loop" => <>(rpc = "done"))
    /\ [][rpc = "loop" => Rank' < Rank]_vars
    /\ [](rpc = "loop" => Rank >= 2)

\* a ray that crossed the whole width through open cells and returned
C13_Witness ==
    /\ rpc = "done" /\ ~hit /\ Rank <= 1
    /\ Cardinality({c \in DOMAIN r_cells : ~r_cells[c]}) >= RayW - 1

C15_OpenSky ==
    /\ [][(rpc = "loop" /\ passed_exit' /\ OutOfGrid(map_x', map_y'))
            => (rpc' = "done" /\ result' # None)]_vars
    /\ [](EarlyReturn =>
            /\ result[1].passed_exit /\ result[1].wall_type = North
            /\ result[1].distance = (IF exit_threshold_dist = None THEN MaxDist
                                     ELSE exit_threshold_dist[1])
            /\ result[1].exit_threshold_dist = exit_threshold_dist
            /\ ~hit)

\* a ray that crossed the exit's cell, left the grid and reports a threshold
\* other than max_distance
C15_Witness ==
    /\ EarlyReturn /\ ~hit /\ result[1].wall_type = North
    /\ exit_threshold_dist # None
    /\ result[1].distance = exit_threshold_dist[1]
    /\ result[1].distance # MaxDist

\* the distance render_frame uses for a column: column_data[col].0
ColumnDistance(res) == res.distance

\* C16 as stated: when a step lands outside the grid and the ray has not passed
\* the exit, cast_ray ends without a wall hit and the distance render_frame
\* uses for the column is max_distance.
C16_AsStated ==
    LeftGrid => ~hit /\ ColumnDistance(result[1]) = MaxDist

\* the distance along the ray from its origin to the grid boundary crossed by
\* the last step
BoundaryDist ==
    IF side = 0
    THEN Fin(((IF dir[1] < 0 THEN start_x ELSE r_width * PosDen - start_x)
              * dir[3] * (DistUnit \div PosDen)) \div Abs(dir[1]))
    ELSE Fin(((IF dir[2] < 0 THEN start_y ELSE r_height * PosDen - start_y)
              * dir[3] * (DistUnit \div PosDen)) \div Abs(dir[2]))

\* C16 amended: when a step lands outside the grid and the ray has not passed
\* the exit, cast_ray ends without a wall hit and the distance render_frame
\* uses for the column is the distance along the ray to the grid boundary it
\* crossed, capped at max_distance.
C16_BoundaryDistance ==
    LeftGrid => ~hit /\ ColumnDistance(result[1]) = MinDist(BoundaryDist, MaxDist)

\* a ray that left the grid without passing the exit, nearer than max_distance
C16_Witness ==
    /\ LeftGrid /\ ~hit /\ max_distance = FarMax
    /\ ColumnDistance(result[1]) = BoundaryDist
    /\ Lt(Zero, ColumnDistance(result[1]))
    /\ Lt(ColumnDistance(result[1]), MaxDist)

\* C27: passed_exit is true exactly when exit_threshold_dist is Some, in the
\* locals and in every RaycastResult; both are set only by a step from a cell
\* other than the exit's into the exit's cell; without both exit coordinates
\* the result has passed_exit false and no threshold.
C27_PassedExitIffThreshold ==
    /\ [](passed_exit <=> exit_threshold_dist # None)
    /\ [](result # None =>
            /\ result[1].passed_exit <=> result[1].exit_threshold_dist # None
            /\ result[1].passed_exit = passed_exit
            /\ result[1].exit_threshold_dist = exit_threshold_dist
            /\ ~ExitGiven => ~result[1].passed_exit)
    /\ [][(passed_exit' # passed_exit
             \/ exit_threshold_dist' # exit_threshold_dist) =>
            /\ ExitGiven /\ passed_exit' /\ exit_threshold_dist' # None
            /\ <<map_x, map_y>> # ExitCell
            /\ <<map_x', map_y'>> = ExitCell]_vars

\* a ray that entered the exit's cell, went on through it and hit a wall
C27_Witness ==
    /\ result # None /\ hit /\ ExitGiven /\ <<map_x, map_y>> # ExitCell
    /\ result[1].passed_exit /\ result[1].exit_threshold_dist # None
    /\ Lt(result[1].exit_threshold_dist[1], result[1].distance)


\* ------------------------------------------------------------ render_frame claims
\* the position in frame of the glyph of cell (r, c)
CellIndex(r, c) == r * (frame_width + 1) + c + 1

\* the class of row r in a column at distance d
CellClass(r, d) ==
    IF r < WallStart(d) THEN "ceiling"
    ELSE IF r < WallEnd(d) THEN "wall" ELSE "floor"

\* C19: the frame built by render_frame is a width x height glyph grid: one
\* glyph per cell, each cell ceiling (row < wall_start), wall (wall_start <=
\* row < wall_end) or floor (row >= wall_end) with 0 <= wall_start <= wall_end
\* <= height, and a newline between rows but none after the last.
C19_FrameGrid ==
    /\ \A c \in 1..Len(column_data) :
          /\ 0 <= WallStart(column_data[c][1])
          /\ WallStart(column_data[c][1]) <= WallEnd(column_data[c][1])
          /\ WallEnd(column_data[c][1]) <= frame_height
    /\ fpc = "done" =>
          /\ Len(frame) = frame_width * frame_height
                          + (IF frame_height > 0 THEN frame_height - 1 ELSE 0)
          /\ \A r \in 0..(frame_height - 1), c \in 0..(frame_width - 1) :
                /\ frame[CellIndex(r, c)] # "\n"
                /\ kinds[CellIndex(r, c)] = CellClass(r, column_data[c + 1][1])
          /\ \A r \in 0..(frame_height - 2) :
                frame[CellIndex(r, frame_width)] = "\n"

\* a finished frame of the largest size with a ceiling, a wall and a floor cell
C19_Witness ==
    /\ fpc = "done" /\ frame_width = FrameW /\ frame_height = FrameH
    /\ Len(frame) = FrameW * FrameH + FrameH - 1
    /\ \E i, j, k \in 1..Len(kinds) :
          kinds[i] = "ceiling" /\ kinds[j] = "wall" /\ kinds[k] = "floor"


\* ------------------------------------------------------------ game claims
RECURSIVE SumTimes(_, _)
\* the sum of the times held by the first i entries of ts
SumTimes(ts, i) ==
    IF i = 0 THEN 0
    ELSE (IF ts[i] = None THEN 0 ELSE ts[i][1]) + SumTimes(ts, i - 1)

\* C24: whenever new_record_total is set, run_times holds a completion time for
\* each of the five levels and total_time is their sum.
C24_TotalRecordNeedsFullRun ==
    (game # None /\ game[1].new_record_total) =>
        /\ \A i \in 1..LastLevel : game[1].run_times[i] # None
        /\ game[1].total_time = SumTimes(game[1].run_times, LastLevel)

\* C25: an update served once has_won is true leaves the whole GameState
\* unchanged and does not reach save_best_times.
C25_WonIsFinal ==
    [][(game # None /\ game[1].has_won /\ last_op'[1].op = "update") =>
          /\ game' = game
          /\ best_file' = best_file
          /\ ~last_op'[1].saved]_vars

\* an update was served on a level already won
C25_Witness ==
    /\ game # None /\ game[1].has_won
    /\ last_op[1].op = "update" /\ ~last_op[1].saved
    /\ game[1].level_completion_time # None

\* C26: current_level is in 1..5 and the maze is square with side
\* 7 + current_level; next_level below level 5 gives the next level with
\* has_won false, total_time and the best times carried over and the record
\* flags cleared; next_level on level 5 gives level 1 with total_time 0 and
\* empty run_times.
C26_LevelsAndSizes ==
    /\ [](game # None =>
            /\ game[1].current_level \in 1..5
            /\ game[1].maze.width = 7 + game[1].current_level
            /\ game[1].maze.height = 7 + game[1].current_level)
    /\ [][(game # None /\ last_op'[1].op = "next_level") =>
            IF game[1].current_level < 5
            THEN /\ game'[1].current_level = game[1].current_level + 1
                 /\ ~game'[1].has_won
                 /\ game'[1].total_time = game[1].total_time
                 /\ game'[1].best_times = game[1].best_times
                 /\ game'[1].best_total_time = game[1].best_total_time
                 /\ game'[1].new_record_level = None
                 /\ ~game'[1].new_record_total
            ELSE /\ game'[1].current_level = 1
                 /\ ~game'[1].has_won
                 /\ game'[1].total_time = 0
                 /\ \A i \in 1..5 : game'[1].run_times[i] = None]_vars

\* next_level on level 5 has started a new run on the 8 x 8 maze of level 1
C26_Witness ==
    /\ game # None /\ last_op[1].op = "next_level" /\ levels_built = 6
    /\ game[1].current_level = 1 /\ game[1].maze.width = 8
    /\ game[1].total_time = 0 /\ game[1].run_times = NoTimes

\* C29: the player's position is inside the grid and in a non-wall cell.
C29_PlayerInOpenCell ==
    game # None =>
        /\ game[1].player_x >= 0 /\ game[1].player_x < game[1].maze.width * PUnit
        /\ game[1].player_y >= 0 /\ game[1].player_y < game[1].maze.height * PUnit
        /\ ~game[1].maze.cells[game[1].player_y \div PUnit][game[1].player_x \div PUnit]

\* no best time of g is unset or larger in h
Monotone(g, h) ==
    \A i \in 1..LastLevel :
        g.best_times[i] # None =>
            h.best_times[i] # None /\ h.best_times[i][1] <= g.best_times[i][1]

\* a win on level L changes best_times[L-1] alone and sets new_record_level to
\* Some(L) exactly when the previous best was absent or strictly greater
WinRule ==
    (game # None /\ ~game[1].has_won /\ game'[1].has_won) =>
        /\ \A i \in 1..LastLevel :
              i # game[1].current_level =>
                  game'[1].best_times[i] = game[1].best_times[i]
        /\ game'[1].new_record_level = Some(game[1].current_level)
              <=> \/ game[1].best_times[game[1].current_level] = None
                  \/ game[1].best_times[game[1].current_level][1]
                        > game'[1].level_completion_time[1]

\* C30 as stated: no update and no next_level unsets or increases a best time,
\* and wins follow WinRule.
C30_AsStated ==
    [][/\ (game # None /\ last_op'[1].op \in {"update", "next_level"}) =>
              Monotone(game[1], game'[1])
       /\ WinRule]_vars

\* C30: no update and no next_level below level 5 unsets or increases a best
\* time; next_level on level 5 takes the best times from best_times.json; wins
\* follow WinRule.
C30_BestTimes ==
    [][/\ (/\ game # None
           /\ \/ last_op'[1].op = "update"
              \/ (last_op'[1].op = "next_level" /\ game[1].current_level < LastLevel)) =>
              Monotone(game[1], game'[1])
       /\ (/\ game # None
           /\ last_op'[1].op = "next_level"
           /\ game[1].current_level = LastLevel) =>
              /\ game'[1].best_times = load_best_times(best_file)[1]
              /\ game'[1].best_total_time = load_best_times(best_file)[2]
       /\ WinRule]_vars

\* a level won in exactly its best time: no record, the best time stays
C30_Witness ==
    /\ game # None /\ game[1].has_won /\ game[1].current_level = 2
    /\ game[1].new_record_level = None
    /\ game[1].best_times[2] = game[1].level_completion_time
    /\ game[1].best_times[1] # None

====
